---- MODULE Spec2Model ----
(***************************************************************************)
(* Model of the crossword CSP solver, Project 3/crossword/generate.py      *)
(* (class CrosswordCreator): node consistency, revise, AC-3, consistent,   *)
(* the two ordering heuristics and the recursive backtracking search.      *)
(*                                                                         *)
(* Python objects are modelled with their reference semantics.  The dict   *)
(* self.domains maps every variable to an OBJECT (a reference); the        *)
(* contents of the objects live in `heap`.  dict.copy() copies the         *)
(* references only, set.remove / list.remove change the object in place.   *)
(* A word is a sequence of letters; positions are 0-based as in the code.  *)
(***************************************************************************)
EXTENDS Integers, Sequences, FiniteSets, TLC

VARIABLES
    variables,    \* self.crossword.variables (the slots of the chosen puzzle)
    words,        \* self.crossword.words (the vocabulary)
    varOrder,     \* iteration order of the set of variables
    wordOrder,    \* iteration order of the sets of words
    domains,      \* self.domains: variable -> reference to a set/list object
    heap,         \* contents of the objects self.domains can refer to
    assignment,   \* the one dict object all backtrack frames share
    stack,        \* active backtrack frames, innermost first
    pc,           \* position of the program
    cons,         \* value returned by the last consistent() call
    result,       \* value returned by the last backtrack() call
    arcs,         \* the queue of ac3 (stepwise runs); after a lone revise(x, y)
                  \* call, the arc (x, y) it was given
    ret,          \* value returned by the stepwise ac3 run or the lone revise call
    before        \* word sets held by every slot when the last observed call
                  \* (consistent, enforce_node_consistency, ac3, revise,
                  \* order_domain_values) began

vars == <<variables, words, varOrder, wordOrder, domains, heap, assignment,
          stack, pc, cons, result, arcs, ret, before>>

-----------------------------------------------------------------------------
(* Bounds *)

\* largest vocabulary given to solve()
MaxVocab == 3

\* largest vocabulary of the propagator runs on arbitrary domains
MaxPropVocab == 2

-----------------------------------------------------------------------------
(* Puzzle structure: slots, cells, overlaps, neighbors *)

ACROSS == "across"

DOWN == "down"

Variable(i, j, direction, length) ==
    [i |-> i, j |-> j, direction |-> direction, length |-> length]

\* cells of a slot, as the set of its (row, column) pairs
Cells(v) ==
    { <<v.i + (IF v.direction = DOWN THEN k ELSE 0),
        v.j + (IF v.direction = ACROSS THEN k ELSE 0)>> : k \in 0 .. v.length - 1 }

\* 0-based offset of cell c in slot v
CellIndex(v, c) == IF v.direction = DOWN THEN c[1] - v.i ELSE c[2] - v.j

NoOverlap == << >>

\* self.crossword.overlaps[x, y]: NoOverlap, or the pair of offsets of the
\* shared cell
overlaps(x, y) ==
    LET common == Cells(x) \cap Cells(y)
    IN  IF x = y \/ common = {}
        THEN NoOverlap
        ELSE LET c == CHOOSE c \in common : TRUE
             IN  <<CellIndex(x, c), CellIndex(y, c)>>

\* self.crossword.neighbors(var)
neighbors(vs, var) == { v \in vs : v # var /\ overlaps(v, var) # NoOverlap }

\* two crossing slots of length 2 sharing their first cell
PuzzleCross ==
    { Variable(0, 0, ACROSS, 2), Variable(0, 0, DOWN, 2) }

\* a slot of length 3 whose last cell starts a slot of length 2
PuzzleCorner ==
    { Variable(0, 0, ACROSS, 3), Variable(0, 2, DOWN, 2) }

\* a chain of three slots of length 2
PuzzleChain ==
    { Variable(0, 0, ACROSS, 2), Variable(0, 1, DOWN, 2), Variable(1, 1, ACROSS, 2) }

\* the fully open 2x2 grid: two rows and two columns
PuzzleSquare ==
    { Variable(0, 0, ACROSS, 2), Variable(1, 0, ACROSS, 2),
      Variable(0, 0, DOWN, 2), Variable(0, 1, DOWN, 2) }

Puzzles == { PuzzleCross, PuzzleCorner, PuzzleChain, PuzzleSquare }

PropPuzzles == { PuzzleCross, PuzzleCorner, PuzzleChain }

\* the words a vocabulary is drawn from
WordPool ==
    { <<"a", "b">>, <<"b", "a">>, <<"a", "a">>, <<"b", "b">>,
      <<"a", "b", "a">>, <<"b", "a", "b">> }

\* all iteration orders of a finite set
Orders(S) ==
    { f \in [1 .. Cardinality(S) -> S] : \A a, b \in DOMAIN f : f[a] = f[b] => a = b }

\* the elements of set S in iteration order `order`
RECURSIVE InOrder(_, _)
InOrder(order, S) ==
    IF order = << >> THEN << >>
    ELSE IF Head(order) \in S
         THEN <<Head(order)>> \o InOrder(Tail(order), S)
         ELSE InOrder(Tail(order), S)

\* character of word w at 0-based position p
At(w, p) == w[p + 1]

-----------------------------------------------------------------------------
(* Objects *)

SetObj(v) == <<"set", v>>

ListObj(v) == <<"list", v>>

Objects(vs) == { SetObj(v) : v \in vs } \cup { ListObj(v) : v \in vs }

\* the words of self.domains[v]
Dom(d, h, v) == h[d[v]]

\* the words of every slot's domain
DomainWords(d, h) == [v \in DOMAIN d |-> h[d[v]]]

\* objects no dict of domains refers to any more are dropped (their content
\* is unobservable): the lists consistent() created
Collect(d, h) ==
    [o \in DOMAIN h |->
        IF (\E v \in DOMAIN d : d[v] = o)
           \/ (\E k \in 1 .. Len(stack) : \E v \in DOMAIN d : stack[k].old_domains[v] = o)
        THEN h[o] ELSE {}]

-----------------------------------------------------------------------------
(* Constraint propagation *)

\* enforce_node_consistency with `<` for `!=`: only the words that are too
\* short are removed
RECURSIVE enforce_node_consistency_short(_, _, _)
enforce_node_consistency_short(vseq, d, h) ==
    IF vseq = << >> THEN h
    ELSE LET var == Head(vseq)
         IN  enforce_node_consistency_short(Tail(vseq), d,
                 [h EXCEPT ![d[var]] = { w \in @ : ~ (Len(w) < var.length) }])

\* enforce_node_consistency with `>` for `!=`: only the words that are too
\* long are removed
RECURSIVE enforce_node_consistency_long(_, _, _)
enforce_node_consistency_long(vseq, d, h) ==
    IF vseq = << >> THEN h
    ELSE LET var == Head(vseq)
         IN  enforce_node_consistency_long(Tail(vseq), d,
                 [h EXCEPT ![d[var]] = { w \in @ : ~ (Len(w) > var.length) }])

\* enforce_node_consistency that stops scanning a domain at the first word
\* it removes: one wrong word is removed per variable and call
RECURSIVE enforce_node_consistency_first(_, _, _)
enforce_node_consistency_first(vseq, d, h) ==
    IF vseq = << >> THEN h
    ELSE LET var == Head(vseq)
             wrong == InOrder(wordOrder, { w \in h[d[var]] : Len(w) # var.length })
         IN  enforce_node_consistency_first(Tail(vseq), d,
                 [h EXCEPT ![d[var]] = IF wrong = << >> THEN @ ELSE @ \ {Head(wrong)}])

\* enforce_node_consistency: for var in variables, remove from the object
\* self.domains[var] every word whose length is not var.length
RECURSIVE enforce_node_consistency(_, _, _)
enforce_node_consistency(vseq, d, h) ==
    IF vseq = << >> THEN h
    ELSE LET var == Head(vseq)
         IN  enforce_node_consistency(Tail(vseq), d,
                 [h EXCEPT ![d[var]] = { w \in @ : Len(w) = var.length }])

\* revise that never sets its flag: the words are removed, False is returned
revise_unflagged(x, y, d, h) ==
    LET overlap == overlaps(x, y)
    IN  IF overlap = NoOverlap
        THEN [revised |-> FALSE, heap |-> h]
        ELSE LET removed == { xw \in h[d[x]] :
                                { yw \in h[d[y]] : At(xw, overlap[1]) = At(yw, overlap[2]) } = {} }
             IN  [revised |-> FALSE,
                  heap |-> [h EXCEPT ![d[x]] = @ \ removed]]

\* revise(x, y): remove from the object self.domains[x] the words that no
\* word of self.domains[y] matches at the overlap
revise(x, y, d, h) ==
    LET overlap == overlaps(x, y)
    IN  IF overlap = NoOverlap
        THEN [revised |-> FALSE, heap |-> h]
        ELSE LET x_overlap == overlap[1]
                 y_overlap == overlap[2]
                 removed == { xw \in h[d[x]] :
                                { yw \in h[d[y]] : At(xw, x_overlap) = At(yw, y_overlap) } = {} }
             IN  [revised |-> removed # {},
                  heap |-> [h EXCEPT ![d[x]] = @ \ removed]]

\* the neighbors of var in iteration order
NeighborSeq(var) == InOrder(varOrder, neighbors(variables, var))

\* ac3, arcs is None: all arcs (var, neighbor) of the problem
RECURSIVE AllArcs(_)
AllArcs(vseq) ==
    IF vseq = << >> THEN << >>
    ELSE LET var == Head(vseq)
             ns == NeighborSeq(var)
         IN  [k \in 1 .. Len(ns) |-> <<var, ns[k]>>] \o AllArcs(Tail(vseq))

\* ac3 that appends no arc after a revision
Enqueued_nothing(arc) == << >>

\* arcs appended after revise(arc[0], arc[1]) made a revision
Enqueued(arc) ==
    LET ns == NeighborSeq(arc[1])
    IN  [k \in 1 .. Len(ns) |-> <<ns[k], arc[1]>>]

\* one iteration of the while loop of ac3 on queue q
ac3_step(d, h, q) ==
    LET arc == Head(q)
        r == revise(arc[1], arc[2], d, h)
    IN  IF r.revised /\ r.heap[d[arc[1]]] = {}
        THEN [returned |-> TRUE, value |-> FALSE, heap |-> r.heap, arcs |-> Tail(q)]
        ELSE [returned |-> FALSE, value |-> TRUE, heap |-> r.heap,
              arcs |-> IF r.revised THEN Tail(q) \o Enqueued(arc) ELSE Tail(q)]

\* the while loop of ac3
RECURSIVE ac3_loop(_, _, _)
ac3_loop(d, h, q) ==
    IF q = << >> THEN [value |-> TRUE, heap |-> h]
    ELSE LET s == ac3_step(d, h, q)
         IN  IF s.returned THEN [value |-> s.value, heap |-> s.heap]
             ELSE ac3_loop(d, s.heap, s.arcs)

\* ac3() with arcs = None
ac3(d, h) == ac3_loop(d, h, AllArcs(varOrder))

-----------------------------------------------------------------------------
(* Search helpers *)

assignment_complete(a) == Cardinality(DOMAIN a) = Cardinality(variables)

\* assignment_has_duplicates with `> 2` for `> 1`
assignment_has_duplicates_twice(a) ==
    \E var \in DOMAIN a : Cardinality({ u \in DOMAIN a : a[u] = a[var] }) > 2

assignment_has_duplicates(a) ==
    \E var \in DOMAIN a : Cardinality({ u \in DOMAIN a : a[u] = a[var] }) > 1

has_empty_domains(d, h) == \E var \in DOMAIN d : h[d[var]] = {}

\* consistent without lines 186-187: the assigned slots keep their domains
consistent_unforced(a, d, h) ==
    IF assignment_has_duplicates(a)
    THEN [value |-> FALSE, domains |-> d, heap |-> h]
    ELSE LET h2 == enforce_node_consistency(varOrder, d, h)
         IN  IF has_empty_domains(d, h2)
             THEN [value |-> FALSE, domains |-> d, heap |-> Collect(d, h2)]
             ELSE LET r == ac3(d, h2)
                  IN  [value |-> r.value, domains |-> d, heap |-> Collect(d, r.heap)]

\* consistent that calls ac3() without testing the value it returns
consistent_ignoring_ac3(a, d, h) ==
    IF assignment_has_duplicates(a)
    THEN [value |-> FALSE, domains |-> d, heap |-> h]
    ELSE LET d1 == [v \in DOMAIN d |-> IF v \in DOMAIN a THEN ListObj(v) ELSE d[v]]
             h1 == [o \in DOMAIN h |->
                      IF o[1] = "list" /\ o[2] \in DOMAIN a THEN { a[o[2]] } ELSE h[o]]
             h2 == enforce_node_consistency(varOrder, d1, h1)
         IN  IF has_empty_domains(d1, h2)
             THEN [value |-> FALSE, domains |-> d, heap |-> Collect(d, h2)]
             ELSE [value |-> TRUE, domains |-> d, heap |-> Collect(d, ac3(d1, h2).heap)]

\* consistent(assignment): the value returned, and self.domains and the
\* objects as the call leaves them
consistent(a, d, h) ==
    IF assignment_has_duplicates(a)
    THEN [value |-> FALSE, domains |-> d, heap |-> h]
    ELSE LET old_domains == d
             d1 == [v \in DOMAIN d |-> IF v \in DOMAIN a THEN ListObj(v) ELSE d[v]]
             h1 == [o \in DOMAIN h |->
                      IF o[1] = "list" /\ o[2] \in DOMAIN a THEN { a[o[2]] } ELSE h[o]]
             h2 == enforce_node_consistency(varOrder, d1, h1)
         IN  IF has_empty_domains(d1, h2)
             THEN [value |-> FALSE, domains |-> old_domains,
                   heap |-> Collect(old_domains, h2)]
             ELSE LET r == ac3(d1, h2)
                  IN  [value |-> r.value, domains |-> old_domains,
                       heap |-> Collect(old_domains, r.heap)]

\* the count with `==` for `!=`: the words that agree with word are counted
Conflicts_agreeing(var, word, neighbor, d, h) ==
    LET o == overlaps(var, neighbor)
    IN  Cardinality({ nw \in h[d[neighbor]] : At(word, o[1]) = At(nw, o[2]) })

\* number of words of the neighbor's domain that differ from word at the overlap
Conflicts(var, word, neighbor, d, h) ==
    LET o == overlaps(var, neighbor)
    IN  Cardinality({ nw \in h[d[neighbor]] : At(word, o[1]) # At(nw, o[2]) })

RECURSIVE SumOver(_, _, _, _, _)
SumOver(ns, var, word, d, h) ==
    IF ns = {} THEN 0
    ELSE LET n == CHOOSE n \in ns : TRUE
         IN  Conflicts(var, word, n, d, h) + SumOver(ns \ {n}, var, word, d, h)

\* the `constraints` counter of order_domain_values for one word
constraints(var, word, a, d, h) ==
    SumOver(neighbors(variables, var) \ DOMAIN a, var, word, d, h)

\* sorted(seq, key): stable, ascending
RECURSIVE SortedFrom(_, _, _, _, _, _, _)
SortedFrom(c, top, seq, var, a, d, h) ==
    IF c > top THEN << >>
    ELSE SelectSeq(seq, LAMBDA w : constraints(var, w, a, d, h) = c)
         \o SortedFrom(c + 1, top, seq, var, a, d, h)

order_domain_values(var, a, d, h) ==
    LET domain_words == InOrder(wordOrder, h[d[var]])
        top == Cardinality(variables) * Cardinality(words)
    IN  SortedFrom(0, top, domain_words, var, a, d, h)

\* select_unassigned_variable that does not read the assignment: the first
\* variable met
select_any_variable(a, d, h) == Head(varOrder)

\* select_unassigned_variable without the two heuristics: the first
\* unassigned variable met
select_first_unassigned(a, d, h) == Head(InOrder(varOrder, variables \ DOMAIN a))

\* select_unassigned_variable, for an incomplete assignment
select_unassigned_variable(a, d, h) ==
    LET unassigned_variables == InOrder(varOrder, variables \ DOMAIN a)
        size(v) == Cardinality(h[d[v]])
        smallest_domain_length ==
            CHOOSE n \in 0 .. Cardinality(words) :
                /\ \E k \in DOMAIN unassigned_variables : size(unassigned_variables[k]) = n
                /\ \A k \in DOMAIN unassigned_variables : size(unassigned_variables[k]) >= n
        smallest_domain_vars ==
            SelectSeq(unassigned_variables, LAMBDA v : size(v) = smallest_domain_length)
        degree(v) == Cardinality(neighbors(variables, v))
        first == CHOOSE k \in DOMAIN smallest_domain_vars :
                    /\ \A m \in DOMAIN smallest_domain_vars :
                           degree(smallest_domain_vars[m]) <= degree(smallest_domain_vars[k])
                    /\ \A m \in 1 .. k - 1 :
                           degree(smallest_domain_vars[m]) < degree(smallest_domain_vars[k])
    IN  smallest_domain_vars[first]

-----------------------------------------------------------------------------
(* solve() and backtrack() as a machine with an explicit call stack *)

None == [some |-> FALSE, value |-> << >>]

Some(a) == [some |-> TRUE, value |-> a]

\* dict assignment a[var] = word
Put(a, var, word) ==
    [v \in DOMAIN a \cup {var} |-> IF v = var THEN word ELSE a[v]]

Vocabularies(n) == { S \in SUBSET WordPool : Cardinality(S) <= n }

\* __init__: every variable gets its own copy of the set of words
InitHeap(vs, ws) == [o \in Objects(vs) |-> IF o[1] = "set" THEN ws ELSE {}]

Init ==
    /\ variables \in Puzzles
    /\ words \in Vocabularies(MaxVocab)
    /\ varOrder \in Orders(variables)
    /\ wordOrder \in Orders(words)
    /\ domains = [v \in variables |-> SetObj(v)]
    /\ heap = InitHeap(variables, words)
    /\ assignment = << >>
    /\ stack = << >>
    /\ pc = "solve"
    /\ cons = FALSE
    /\ result = None
    /\ arcs = << >>
    /\ ret = TRUE
    /\ before = [v \in variables |-> words]

\* solve(): lines 92-94, up to the call backtrack(dict())
Solve ==
    /\ pc = "solve"
    /\ LET h1 == enforce_node_consistency(varOrder, domains, heap)
           r == ac3(domains, h1)
       IN  heap' = r.heap
    /\ assignment' = << >>
    /\ pc' = "backtrack"
    /\ UNCHANGED <<variables, words, varOrder, wordOrder, domains, stack, cons,
                   result, arcs, ret, before>>

\* backtrack, lines 270-271: the assignment is complete and is returned
BacktrackComplete ==
    /\ pc = "backtrack"
    /\ assignment_complete(assignment)
    /\ result' = Some(assignment)
    /\ pc' = "return"
    /\ UNCHANGED <<variables, words, varOrder, wordOrder, domains, heap, assignment,
                   stack, cons, arcs, ret, before>>

\* backtrack, lines 273-274: a new frame with its variable and ordered words
BacktrackSelect ==
    /\ pc = "backtrack"
    /\ ~ assignment_complete(assignment)
    /\ LET unassigned_var == select_unassigned_variable(assignment, domains, heap)
       IN  stack' = << [unassigned_var |-> unassigned_var,
                        sorted_domain_words |->
                            order_domain_values(unassigned_var, assignment, domains, heap),
                        old_domains |-> domains,
                        entry_assignment |-> assignment,
                        snapshot_words |-> DomainWords(domains, heap)] >> \o stack
    /\ pc' = "for"
    /\ UNCHANGED <<variables, words, varOrder, wordOrder, domains, heap, assignment,
                   cons, result, arcs, ret, before>>

\* backtrack, lines 275-278: the next word is put into the shared
\* assignment (new_assignment is the same dict) and consistent() is called
ForWord ==
    /\ pc = "for"
    /\ Head(stack).sorted_domain_words # << >>
    /\ LET frame == Head(stack)
           word == Head(frame.sorted_domain_words)
           new_assignment == Put(assignment, frame.unassigned_var, word)
           c == consistent(new_assignment, domains, heap)
       IN  /\ assignment' = new_assignment
           /\ cons' = c.value
           /\ domains' = c.domains
           /\ heap' = c.heap
           /\ stack' = << [frame EXCEPT !.sorted_domain_words = Tail(@)] >> \o Tail(stack)
    /\ before' = DomainWords(domains, heap)
    /\ pc' = "if"
    /\ UNCHANGED <<variables, words, varOrder, wordOrder, result, arcs, ret>>

\* backtrack, lines 279-282: snapshot, propagate, recursive call
IfConsistent ==
    /\ pc = "if"
    /\ cons
    /\ LET old_domains == domains
           h1 == enforce_node_consistency(varOrder, domains, heap)
           r == ac3(domains, h1)
       IN  /\ stack' = << [Head(stack) EXCEPT
                              !.old_domains = old_domains,
                              !.snapshot_words = DomainWords(domains, heap)] >>
                       \o Tail(stack)
           /\ heap' = r.heap
    /\ pc' = "backtrack"
    /\ UNCHANGED <<variables, words, varOrder, wordOrder, domains, assignment, cons,
                   result, arcs, ret, before>>

\* backtrack, line 278 false: on to the next word
IfInconsistent ==
    /\ pc = "if"
    /\ ~ cons
    /\ pc' = "for"
    /\ UNCHANGED <<variables, words, varOrder, wordOrder, domains, heap, assignment,
                   stack, cons, result, arcs, ret, before>>

\* backtrack, line 287: the loop is over, the frame returns None
ForExhausted ==
    /\ pc = "for"
    /\ Head(stack).sorted_domain_words = << >>
    /\ result' = None
    /\ stack' = Tail(stack)
    /\ pc' = "return"
    /\ UNCHANGED <<variables, words, varOrder, wordOrder, domains, heap, assignment,
                   cons, arcs, ret, before>>

\* backtrack, lines 283-284: the recursive call succeeded, the frame
\* returns its result
ReturnResult ==
    /\ pc = "return"
    /\ stack # << >>
    /\ result.some
    /\ stack' = Tail(stack)
    /\ UNCHANGED <<variables, words, varOrder, wordOrder, domains, heap, assignment,
                   pc, cons, result, arcs, ret, before>>

\* backtrack, lines 285-286: the recursive call failed, self.domains is set
\* to the snapshot dict and the loop goes on
ReturnNone ==
    /\ pc = "return"
    /\ stack # << >>
    /\ ~ result.some
    /\ domains' = Head(stack).old_domains
    /\ heap' = Collect(Head(stack).old_domains, heap)
    /\ pc' = "for"
    /\ UNCHANGED <<variables, words, varOrder, wordOrder, assignment, stack, cons,
                   result, arcs, ret, before>>

\* solve(): the outermost backtrack call has returned
SolveReturn ==
    /\ pc = "return"
    /\ stack = << >>
    /\ pc' = "done"
    /\ UNCHANGED <<variables, words, varOrder, wordOrder, domains, heap, assignment,
                   stack, cons, result, arcs, ret, before>>

Next ==
    \/ Solve
    \/ BacktrackComplete
    \/ BacktrackSelect
    \/ ForWord
    \/ IfConsistent
    \/ IfInconsistent
    \/ ForExhausted
    \/ ReturnResult
    \/ ReturnNone
    \/ SolveReturn

Spec == Init /\ [][Next]_vars

-----------------------------------------------------------------------------
(* Properties of solve() and backtrack() *)

\* a is complete, uses words of the vocabulary of the right length, no word
\* twice, and agrees at every overlap
ValidAssignment(a) ==
    /\ DOMAIN a = variables
    /\ \A x \in variables : a[x] \in words /\ Len(a[x]) = x.length
    /\ \A x, y \in variables : x # y => a[x] # a[y]
    /\ \A x, y \in variables :
          overlaps(x, y) # NoOverlap =>
             At(a[x], overlaps(x, y)[1]) = At(a[y], overlaps(x, y)[2])

SolutionExists == \E a \in [variables -> words] : ValidAssignment(a)

\* C1: every assignment backtrack() / solve() returns (any result that is
\* not None) is complete, has pairwise distinct words, gives every slot a
\* word of the slot's length and agrees at every overlap.
C1_ReturnedAssignmentValid ==
    result.some => ValidAssignment(result.value)

C1_Witness ==
    pc = "done" /\ result.some /\ Cardinality(variables) >= 3

\* C2: solve() returns None only when no valid complete assignment exists,
\* and returns an assignment whenever one exists.
C2_SolveComplete ==
    pc = "done" => (result.some <=> SolutionExists)

\* C3: consistent() leaves every slot's domain with exactly the words it
\* held immediately before the call, whether it returns True or False.
C3_ConsistentRestores ==
    pc = "if" => DomainWords(domains, heap) = before

\* C4: when the recursive call for a tentative word has failed, the restore
\* leaves every slot's domain with exactly the words it held when the
\* snapshot was taken.
C4_NoResidue ==
    [][(pc = "return" /\ pc' = "for")
          => DomainWords(domains', heap') = Head(stack).snapshot_words]_vars

\* C5: when backtrack(a) returns None, the assignment holds exactly the
\* entries it held when backtrack(a) was called.
C5_FailedBranchUndone ==
    [][(pc = "for" /\ pc' = "return")
          => assignment' = Head(stack).entry_assignment]_vars

\* no word of the vocabulary has the length of any slot
AllWrongLength == \A w \in words : \A v \in variables : Len(w) # v.length

\* C10: with a vocabulary of words that fit no slot, node consistency
\* empties every domain and solve() ends and returns None: no word is ever
\* tried and no recursive call is made (the run is the straight line solve,
\* backtrack, empty loop, return), and the value returned is None.
C10_WrongLengthVocabulary ==
    AllWrongLength =>
        /\ pc # "solve" => \A v \in variables : Dom(domains, heap, v) = {}
        /\ pc \in {"solve", "backtrack", "for", "return", "done"}
        /\ Len(stack) = (IF pc = "for" THEN 1 ELSE 0)
        /\ pc = "for" => Head(stack).sorted_domain_words = << >>
        /\ pc \in {"return", "done"} => ~ result.some

C10_Witness ==
    AllWrongLength /\ words # {} /\ pc = "done" /\ ~ result.some

-----------------------------------------------------------------------------
(* The propagators on arbitrary domains: enforce_node_consistency() twice, *)
(* then ac3() one iteration of its loop at a time                          *)

\* a heap whose set objects hold the word sets ws
HeapOf(ws) == [o \in Objects(DOMAIN ws) |-> IF o[1] = "set" THEN ws[o[2]] ELSE {}]

PropInit ==
    /\ variables \in PropPuzzles
    /\ words \in Vocabularies(MaxPropVocab)
    /\ varOrder \in Orders(variables)
    /\ wordOrder = (CHOOSE o \in Orders(words) : TRUE)
    /\ domains = [v \in variables |-> SetObj(v)]
    /\ \E ws \in [variables -> SUBSET words] : heap = HeapOf(ws)
    /\ assignment = << >>
    /\ stack = << >>
    /\ pc = "prop"
    /\ cons = FALSE
    /\ result = None
    /\ arcs = << >>
    /\ ret = TRUE
    /\ before = DomainWords(domains, heap)

\* enforce_node_consistency(), first call
NodeConsistencyCall ==
    /\ pc = "prop"
    /\ before' = DomainWords(domains, heap)
    /\ heap' = enforce_node_consistency(varOrder, domains, heap)
    /\ pc' = "node1"
    /\ UNCHANGED <<variables, words, varOrder, wordOrder, domains, assignment, stack,
                   cons, result, arcs, ret>>

\* enforce_node_consistency(), called again right after
NodeConsistencyAgain ==
    /\ pc = "node1"
    /\ heap' = enforce_node_consistency(varOrder, domains, heap)
    /\ pc' = "node2"
    /\ UNCHANGED <<variables, words, varOrder, wordOrder, domains, assignment, stack,
                   cons, result, arcs, ret, before>>

\* ac3(), lines 138-142: arcs is None, the queue gets every arc
Ac3Call ==
    /\ pc = "node2"
    /\ before' = DomainWords(domains, heap)
    /\ arcs' = AllArcs(varOrder)
    /\ pc' = "ac3"
    /\ UNCHANGED <<variables, words, varOrder, wordOrder, domains, heap, assignment,
                   stack, cons, result, ret>>

\* ac3(), lines 145-153: one iteration of the while loop
Ac3Iterate ==
    /\ pc = "ac3"
    /\ arcs # << >>
    /\ LET s == ac3_step(domains, heap, arcs)
       IN  /\ heap' = s.heap
           /\ arcs' = s.arcs
           /\ ret' = s.value
           /\ pc' = IF s.returned THEN "ac3_done" ELSE "ac3"
    /\ UNCHANGED <<variables, words, varOrder, wordOrder, domains, assignment, stack,
                   cons, result, before>>

\* ac3(), line 154: the queue is empty
Ac3Return ==
    /\ pc = "ac3"
    /\ arcs = << >>
    /\ ret' = TRUE
    /\ pc' = "ac3_done"
    /\ UNCHANGED <<variables, words, varOrder, wordOrder, domains, heap, assignment,
                   stack, cons, result, arcs, before>>

\* revise(x, y) called on its own, on node-consistent domains
ReviseCall ==
    /\ pc = "node2"
    /\ \E x, y \in variables :
          /\ x # y
          /\ LET r == revise(x, y, domains, heap)
             IN  /\ heap' = r.heap
                 /\ ret' = r.revised
          /\ arcs' = << <<x, y>> >>
    /\ before' = DomainWords(domains, heap)
    /\ pc' = "revised"
    /\ UNCHANGED <<variables, words, varOrder, wordOrder, domains, assignment, stack,
                   cons, result>>

\* order_domain_values(var, a) called on its own, on node-consistent
\* domains, for a slot var and an assignment a of other slots
OrderCall ==
    /\ pc = "node2"
    \* every node-consistent domain state is taken once: from the run that
    \* started in it, under one iteration order of the variables (it is not
    \* read by the call)
    /\ before = DomainWords(domains, heap)
    /\ varOrder = (CHOOSE o \in Orders(variables) : TRUE)
    /\ \E var \in variables : \E S \in SUBSET (variables \ {var}) :
          \* only the keys of a are read: every key gets the same word
          \E a \in [S -> { w \in words : w = wordOrder[1] }] :
          /\ assignment' = a
          /\ stack' = << [unassigned_var |-> var,
                          sorted_domain_words |-> order_domain_values(var, a, domains, heap),
                          old_domains |-> domains,
                          entry_assignment |-> a,
                          snapshot_words |-> DomainWords(domains, heap)] >>
    /\ before' = DomainWords(domains, heap)
    /\ pc' = "ordered"
    /\ UNCHANGED <<variables, words, varOrder, wordOrder, domains, heap, cons, result,
                   arcs, ret>>

PropNext ==
    \/ ReviseCall
    \/ OrderCall
    \/ NodeConsistencyCall
    \/ NodeConsistencyAgain
    \/ Ac3Call
    \/ Ac3Iterate
    \/ Ac3Return

PropSpec == PropInit /\ [][PropNext]_vars

\* the program entered either through solve() or through the propagators
RunInit == Init \/ PropInit

RunNext == Next \/ PropNext

RunSpec == RunInit /\ [][RunNext]_vars

\* every word of domain(x) has a partner in domain(y), for every overlap
ArcConsistent(d, h) ==
    \A x, y \in variables :
        overlaps(x, y) # NoOverlap =>
            \A w \in Dom(d, h, x) : \E v \in Dom(d, h, y) :
                At(w, overlaps(x, y)[1]) = At(v, overlaps(x, y)[2])

\* C6: after ac3() without initial arcs returns True on node-consistent
\* domains, every word of every domain has a matching word in the domain
\* of every overlapping slot.
C6_Ac3ArcConsistent ==
    (pc = "ac3_done" /\ ret) => ArcConsistent(domains, heap)

C6_Witness ==
    /\ pc = "ac3_done" /\ ret
    /\ \E v \in variables : Dom(domains, heap, v) # before[v]
    /\ \A v \in variables : Dom(domains, heap, v) # {}

\* C7: if ac3() returns False some domain is empty, and if it returns True
\* every domain is nonempty, whatever the domains were before the call.
C7_Ac3ReturnValue ==
    pc = "ac3_done" =>
        /\ (~ ret => \E v \in variables : Dom(domains, heap, v) = {})
        /\ (ret => \A v \in variables : Dom(domains, heap, v) # {})

\* C8: enforce_node_consistency() leaves in every domain exactly the words
\* of its previous domain that have the slot's length.
C8_NodeConsistencyFilters ==
    pc = "node1" =>
        \A v \in variables :
            Dom(domains, heap, v) = { w \in before[v] : Len(w) = v.length }

C8_Witness ==
    /\ pc = "node1"
    /\ \E v \in variables : Dom(domains, heap, v) # before[v] /\ Dom(domains, heap, v) # {}

\* C9: two calls of enforce_node_consistency() in a row leave every domain
\* as a single call does.
C9_NodeConsistencyIdempotent ==
    pc = "node2" =>
        DomainWords(domains, heap)
            = DomainWords(domains, enforce_node_consistency(varOrder, domains, HeapOf(before)))

C9_Witness ==
    /\ pc = "node2"
    /\ \E v \in variables : Cardinality(before[v] \ Dom(domains, heap, v)) >= 2

\* C11: revise(x, y) on node-consistent domains changes nothing and returns
\* False when x and y do not overlap; otherwise domain(x) becomes exactly its
\* previous words that have a matching word in domain(y), every other domain
\* is unchanged, and True is returned iff a word was removed from domain(x).
C11_ReviseContract ==
    pc = "revised" =>
        LET x == arcs[1][1]
            y == arcs[1][2]
            o == overlaps(x, y)
        IN  IF o = NoOverlap
            THEN DomainWords(domains, heap) = before /\ ~ ret
            ELSE /\ Dom(domains, heap, x)
                       = { w \in before[x] : \E v \in before[y] : At(w, o[1]) = At(v, o[2]) }
                 /\ \A z \in variables \ {x} : Dom(domains, heap, z) = before[z]
                 /\ ret <=> (Dom(domains, heap, x) # before[x])

C11_Witness ==
    /\ pc = "revised"
    /\ ret
    /\ Dom(domains, heap, arcs[1][1]) # {}
    /\ \E x, y \in variables : x # y /\ overlaps(x, y) = NoOverlap

-----------------------------------------------------------------------------
(* Properties of consistent() and of the two heuristics *)

\* one round of pruning: the words of the right length that have a partner
\* in the domain of every overlapping slot
PruneRound(ws) ==
    [x \in DOMAIN ws |->
        { w \in ws[x] :
            /\ Len(w) = x.length
            /\ \A y \in neighbors(DOMAIN ws, x) :
                  \E v \in ws[y] :
                      Len(v) = y.length /\ At(w, overlaps(x, y)[1]) = At(v, overlaps(x, y)[2]) }]

\* the word sets node consistency and full arc consistency lead to
RECURSIVE Propagated(_)
Propagated(ws) ==
    IF PruneRound(ws) = ws THEN ws ELSE Propagated(PruneRound(ws))

\* the domains with every assigned slot forced to its word
Forced(a, ws) == [v \in DOMAIN ws |-> IF v \in DOMAIN a THEN { a[v] } ELSE ws[v]]

\* no two entries of a share a word
Distinct(a) == \A x, y \in DOMAIN a : x # y => a[x] # a[y]

\* C12: consistent(a) returns True iff no two entries of a share a word and,
\* with every assigned slot forced to its word and the other domains as they
\* are, node consistency followed by full arc consistency leaves no domain
\* empty; for a complete a, iff a has distinct words of the slots' lengths
\* that agree at every overlap.
C12_ConsistentValue ==
    pc = "if" =>
        /\ cons <=> /\ Distinct(assignment)
                    /\ \A v \in variables : Propagated(Forced(assignment, before))[v] # {}
        /\ assignment_complete(assignment) => (cons <=> ValidAssignment(assignment))

C12_Witness ==
    /\ pc = "if"
    /\ ~ cons
    /\ Distinct(assignment)
    /\ assignment_complete(assignment)

\* size of the current domain of slot u
DomainSize(u) == Cardinality(Dom(domains, heap, u))

\* number of neighbors of slot u
Degree(u) == Cardinality(neighbors(variables, u))

\* C13: for an incomplete assignment, select_unassigned_variable returns a
\* slot v outside the assignment such that no unassigned slot has a smaller
\* domain, and none of those with a domain of the same size has more
\* neighbors.
C13_SelectVariable ==
    [][(pc = "backtrack" /\ pc' = "for") =>
          LET v == Head(stack').unassigned_var
              unassigned == variables \ DOMAIN assignment
          IN  /\ v \in unassigned
              /\ \A u \in unassigned : DomainSize(u) >= DomainSize(v)
              /\ \A u \in unassigned :
                    DomainSize(u) = DomainSize(v) => Degree(u) <= Degree(v)]_vars

\* a frame that has just selected its variable: a slot with a larger domain
\* and a slot with an equal domain and fewer neighbors were passed over
C13_Witness ==
    /\ pc = "for"
    /\ Head(stack).entry_assignment = assignment
    /\ LET v == Head(stack).unassigned_var
           unassigned == variables \ DOMAIN assignment
       IN  /\ DomainSize(v) > 0
           /\ \E u \in unassigned : DomainSize(u) > DomainSize(v)
           /\ \E u \in unassigned : DomainSize(u) = DomainSize(v) /\ Degree(u) < Degree(v)

\* conflict count of word w for slot var: the pairs (n, nw) of a neighbor n
\* outside the assignment and a word nw of its domain that differs from w at
\* the overlap of var and n
ConflictCount(var, w) ==
    Cardinality(UNION { { <<n, nw>> : nw \in { u \in Dom(domains, heap, n) :
                              At(w, overlaps(var, n)[1]) # At(u, overlaps(var, n)[2]) } } :
                        n \in neighbors(variables, var) \ DOMAIN assignment })

\* C14: order_domain_values(var, a) returns every word of domain(var)
\* exactly once, in non-decreasing order of conflict count, where only the
\* neighbors outside a are counted.
C14_OrderDomainValues ==
    pc = "ordered" =>
        LET var == Head(stack).unassigned_var
            seq == Head(stack).sorted_domain_words
        IN  /\ Len(seq) = Cardinality(Dom(domains, heap, var))
            /\ { seq[k] : k \in DOMAIN seq } = Dom(domains, heap, var)
            /\ \A k \in 1 .. Len(seq) - 1 :
                  ConflictCount(var, seq[k]) <= ConflictCount(var, seq[k + 1])

\* words of different conflict counts have been ordered for a slot that has
\* an assigned neighbor holding a word that differs from the first of them
C14_Witness ==
    /\ pc = "ordered"
    /\ LET var == Head(stack).unassigned_var
           seq == Head(stack).sorted_domain_words
       IN  /\ Len(seq) >= 2
           /\ ConflictCount(var, seq[1]) < ConflictCount(var, seq[Len(seq)])
           /\ \E n \in neighbors(variables, var) \cap DOMAIN assignment :
                 \E nw \in Dom(domains, heap, n) :
                     At(seq[1], overlaps(var, n)[1]) # At(nw, overlaps(var, n)[2])

-----------------------------------------------------------------------------
(* Properties of the steps of ac3() and of the search *)

\* C15: when the iteration of ac3 for arc (x, y) changed domain(x) without
\* emptying it, the arcs appended to the queue are exactly the arcs (z, x)
\* for the neighbors z of x other than y; (y, x) is not appended.
C15_EnqueuedArcs ==
    [][(pc = "ac3" /\ arcs # << >> /\ pc' = "ac3" /\ heap' # heap) =>
          LET x == Head(arcs)[1]
              y == Head(arcs)[2]
              appended == SubSeq(arcs', Len(arcs), Len(arcs'))
              expected == { <<z, x>> : z \in neighbors(variables, x) \ {y} }
          IN  /\ Len(appended) = Cardinality(expected)
              /\ { appended[k] : k \in DOMAIN appended } = expected]_vars

\* C16: at the recursive call made after var -> word passed consistent() and
\* node and arc consistency were re-run, every word left in the domain of
\* every unassigned neighbor of var agrees with word at their overlap.
C16_AssignmentRipples ==
    (pc = "backtrack" /\ stack # << >>) =>
        LET var == Head(stack).unassigned_var
            word == assignment[var]
        IN  \A n \in neighbors(variables, var) \ DOMAIN assignment :
                \A w \in Dom(domains, heap, n) :
                    At(word, overlaps(var, n)[1]) = At(w, overlaps(var, n)[2])

\* a recursive call before which a word was pruned from the domain of an
\* unassigned neighbor that still holds a word
C16_Witness ==
    /\ pc = "backtrack"
    /\ stack # << >>
    /\ LET var == Head(stack).unassigned_var
           word == assignment[var]
       IN  \E n \in neighbors(variables, var) \ DOMAIN assignment :
               /\ Dom(domains, heap, n) # {}
               /\ \E w \in before[n] :
                     At(word, overlaps(var, n)[1]) # At(w, overlaps(var, n)[2])

-----------------------------------------------------------------------------
(* Termination of ac3() and of solve(), by a measure that every step lowers *)

\* number of (slot, word) pairs left in the domains
TotalWords(h) ==
    Cardinality(UNION { { <<v, w>> : w \in Dom(domains, h, v) } : v \in variables })

\* steps left to an ac3() run: a revision that appends arcs removes a word
Ac3Measure(q, h) == Cardinality(variables) * TotalWords(h) + Len(q) + 1

\* bound on the steps of a backtrack call made with d frames below it
RECURSIVE Cost(_)
Cost(d) ==
    IF d >= Cardinality(variables) THEN 1
    ELSE 2 + Cardinality(words) * (3 + Cost(d + 1))

\* steps left to the frames stack[1 .. k]; stack[k] has Len(stack) - k + 1
\* frames at and below it
RECURSIVE FramesMeasure(_)
FramesMeasure(k) ==
    IF k = 0 THEN 0
    ELSE Len(stack[k].sorted_domain_words) * (3 + Cost(Len(stack) - k + 1)) + 2
         + FramesMeasure(k - 1)

Measure ==
    CASE pc = "solve"     -> Cost(0) + 2
      [] pc = "backtrack" -> FramesMeasure(Len(stack)) + Cost(Len(stack)) + 1
      [] pc = "if"        -> FramesMeasure(Len(stack)) + Cost(Len(stack)) + 2
      [] pc = "for"       -> FramesMeasure(Len(stack))
      [] pc = "return"    -> FramesMeasure(Len(stack)) + 1
      [] pc = "prop"      -> Ac3Measure(AllArcs(varOrder), heap) + 3
      [] pc = "node1"     -> Ac3Measure(AllArcs(varOrder), heap) + 2
      [] pc = "node2"     -> Ac3Measure(AllArcs(varOrder), heap) + 1
      [] pc = "ac3"       -> Ac3Measure(arcs, heap)
      [] OTHER            -> 0

\* C17: solve() terminates: every step of ac3() and of the search lowers a
\* natural-number measure; an ac3() step appends arcs only when the revised
\* domain strictly shrank; every recursive backtrack call gets an assignment
\* with strictly more entries than its caller's had at entry; and the
\* recursion is never deeper than the number of slots.
C17_Terminates ==
    [][/\ Measure \in Nat
       /\ Measure' \in Nat
       /\ Measure' < Measure
       /\ (pc = "ac3" /\ arcs # << >> /\ Len(arcs') >= Len(arcs)) =>
              LET x == Head(arcs)[1]
              IN  /\ Dom(domains, heap', x) \subseteq Dom(domains, heap, x)
                  /\ Dom(domains, heap', x) # Dom(domains, heap, x)
       /\ (pc = "if" /\ pc' = "backtrack") =>
              Cardinality(DOMAIN assignment')
                  > Cardinality(DOMAIN Head(stack').entry_assignment)
       /\ Len(stack') <= Cardinality(variables)]_vars

\* a recursive call at depth equal to the number of slots, at least three
C17_Witness ==
    /\ pc = "backtrack"
    /\ Cardinality(variables) >= 3
    /\ Len(stack) = Cardinality(variables)

====
